---- MODULE Spec2Model ----
(***************************************************************************)
(* ETH platform-coin and ERC20-token activation (coins/eth/v2_activation): *)
(* eth_coin_from_conf_and_request_v2, build_address_and_priv_key_policy,   *)
(* build_http_transport and EthCoin::initialize_erc20_token, run as        *)
(* concurrent asynchronous calls over the process-wide NONCE_LOCK map and  *)
(* the abortable system of MmCtx.                                          *)
(*                                                                         *)
(* Every call is one task.  A task's step runs from one suspension point   *)
(* (.await, Mutex::lock) to the next.  The build modelled is wasm32, the   *)
(* one that compiles every match arm (Metamask included).                  *)
(***************************************************************************)
EXTENDS Integers, Sequences, FiniteSets, TLC

\* ------------------------------------------------------------- bounds
\* Longest `nodes` list of a request.
MaxNodes == 2
\* Number of concurrent calls (activations and token derivations).
MaxTasks == 2

Tasks == 1..MaxTasks

\* ------------------------------------------------------------ options
None == <<>>
Some(v) == <<v>>
IsSome(o) == o # <<>>
Unwrap(o) == o[1]
unwrap_or(o, d) == IF IsSome(o) THEN o[1] ELSE d

\* ---------------------------------------------------------- addresses
\* Address::default(): the all-zero address.
Address_default == "0x00"
SwapContracts == {Address_default, "0xc1"}

\* -------------------------------------------------------------- errors
Err(kind, data) == [kind |-> kind, data |-> data]
Ok == [kind |-> "Ok", data |-> ""]
Pending == [kind |-> "Pending", data |-> ""]

\* ------------------------------------------------------------ the keys
\* Raw secrets an IguanaPrivKey policy may carry; "s0" is no curve scalar.
Secrets == {"s1", "s2", "s0"}
\* KeyPair::from_secret_slice: fails on a slice that is no valid secret key.
KeyPair_from_secret_slice(raw) ==
    IF raw = "s0" THEN [ok |-> FALSE, key_pair |-> [secret |-> "", address |-> ""]]
    ELSE [ok |-> TRUE,
          key_pair |-> [secret |-> raw,
                        address |-> CASE raw = "s1" -> "a1"
                                      [] raw = "s2" -> "a2"
                                      [] OTHER -> "a3"]]

\* A derivation path as its components; StandardHDPathToCoin is m/44'/coin'.
ValidPath == <<"m", "44'", "60'">>
MalformedPath == <<"m", "44", "x">>
DerivationPaths == {None, Some(ValidPath), Some(MalformedPath)}
\* json::from_value::<Option<StandardHDPathToCoin>>(conf["derivation_path"])
from_value_derivation_path(v) ==
    IF ~IsSome(v) THEN [ok |-> TRUE, path |-> None]
    ELSE LET p == Unwrap(v) IN
         IF Len(p) = 3 /\ p[1] = "m" /\ p[2] = "44'" /\ p[3] \in {"60'", "0'"}
         THEN [ok |-> TRUE, path |-> Some([purpose |-> 44, coin_type |-> p[3]])]
         ELSE [ok |-> FALSE, path |-> None]

\* GlobalHDCtx::derive_secp256k1_secret: "hdx" is a context whose derivation fails.
HDContexts == {"hd1", "hdx"}
derive_secp256k1_secret(hd, path) ==
    IF hd = "hdx" THEN [ok |-> FALSE, secret |-> ""] ELSE [ok |-> TRUE, secret |-> "s3"]

\* MetamaskCtx::eth_account().address; "zz" is no hex address.
MetamaskAccounts == {"0xm1", "zz"}
addr_from_str(s) == IF s = "zz" THEN [ok |-> FALSE, address |-> ""] ELSE [ok |-> TRUE, address |-> "m1"]

BuildPolicy(tag, arg) == [tag |-> tag, arg |-> arg]
EthPrivKeyBuildPolicy ==
    {BuildPolicy("IguanaPrivKey", s) : s \in Secrets}
    \cup {BuildPolicy("GlobalHDAccount", h) : h \in HDContexts}
    \cup {BuildPolicy("Metamask", a) : a \in MetamaskAccounts}

NoKeyPair == [secret |-> "", address |-> ""]
KeyPolicy(tag, key_pair) == [tag |-> tag, key_pair |-> key_pair]
NoPolicy == KeyPolicy("", NoKeyPair)

\* The result of key-policy resolution; `crypto` lists the cryptographic
\* operations it performed, in order.
KpErr(e, crypto) ==
    [res |-> e, my_address |-> "", priv_key_policy |-> NoPolicy, crypto |-> crypto]
KpOk(address, policy, crypto) ==
    [res |-> Ok, my_address |-> address, priv_key_policy |-> policy, crypto |-> crypto]

key_pair_stage(raw, crypto) ==
    LET kp == KeyPair_from_secret_slice(raw) IN
    IF ~kp.ok THEN KpErr(Err("InternalError", "key pair"), Append(crypto, "from_secret_slice"))
    ELSE KpOk(kp.key_pair.address, KeyPolicy("KeyPair", kp.key_pair),
              Append(crypto, "from_secret_slice"))

\* Key-policy resolution with json::from_value(..).ok().flatten(): a path that
\* does not deserialize is taken for a missing one.
build_policy_path_ok(conf, priv_key_policy) ==
    CASE priv_key_policy.tag = "IguanaPrivKey" -> key_pair_stage(priv_key_policy.arg, <<>>)
      [] priv_key_policy.tag = "GlobalHDAccount" ->
            LET parsed == from_value_derivation_path(conf.derivation_path) IN
            IF ~parsed.ok \/ ~IsSome(parsed.path) THEN KpErr(Err("DerivationPathIsNotSet", ""), <<>>)
            ELSE LET d == derive_secp256k1_secret(priv_key_policy.arg, Unwrap(parsed.path)) IN
                 IF ~d.ok THEN KpErr(Err("InternalError", "derive"), <<"derive_secp256k1_secret">>)
                 ELSE key_pair_stage(d.secret, <<"derive_secp256k1_secret">>)
      [] OTHER ->
            LET a == addr_from_str(priv_key_policy.arg) IN
            IF ~a.ok THEN KpErr(Err("InternalError", "address"), <<>>)
            ELSE KpOk(a.address, KeyPolicy("Metamask", NoKeyPair), <<>>)

\* Key-policy resolution that builds a key pair from the account's root secret
\* before it reads the derivation path.
build_policy_key_first(conf, priv_key_policy) ==
    CASE priv_key_policy.tag = "IguanaPrivKey" -> key_pair_stage(priv_key_policy.arg, <<>>)
      [] priv_key_policy.tag = "GlobalHDAccount" ->
            LET parsed == from_value_derivation_path(conf.derivation_path) IN
            IF ~parsed.ok
            THEN KpErr(Err("ErrorDeserializingDerivationPath", "derivation_path"),
                       <<"from_secret_slice">>)
            ELSE IF ~IsSome(parsed.path)
            THEN KpErr(Err("DerivationPathIsNotSet", ""), <<"from_secret_slice">>)
            ELSE LET d == derive_secp256k1_secret(priv_key_policy.arg, Unwrap(parsed.path)) IN
                 IF ~d.ok THEN KpErr(Err("InternalError", "derive"), <<"derive_secp256k1_secret">>)
                 ELSE key_pair_stage(d.secret, <<"derive_secp256k1_secret">>)
      [] OTHER ->
            LET a == addr_from_str(priv_key_policy.arg) IN
            IF ~a.ok THEN KpErr(Err("InternalError", "address"), <<>>)
            ELSE KpOk(a.address, KeyPolicy("Metamask", NoKeyPair), <<>>)

build_address_and_priv_key_policy(conf, priv_key_policy) ==
    CASE priv_key_policy.tag = "IguanaPrivKey" -> key_pair_stage(priv_key_policy.arg, <<>>)
      [] priv_key_policy.tag = "GlobalHDAccount" ->
            LET parsed == from_value_derivation_path(conf.derivation_path) IN
            IF ~parsed.ok THEN KpErr(Err("ErrorDeserializingDerivationPath", "derivation_path"), <<>>)
            ELSE IF ~IsSome(parsed.path) THEN KpErr(Err("DerivationPathIsNotSet", ""), <<>>)
            ELSE LET d == derive_secp256k1_secret(priv_key_policy.arg, Unwrap(parsed.path)) IN
                 IF ~d.ok THEN KpErr(Err("InternalError", "derive"), <<"derive_secp256k1_secret">>)
                 ELSE key_pair_stage(d.secret, <<"derive_secp256k1_secret">>)
      [] OTHER ->
            LET a == addr_from_str(priv_key_policy.arg) IN
            IF ~a.ok THEN KpErr(Err("InternalError", "address"), <<>>)
            ELSE KpOk(a.address, KeyPolicy("Metamask", NoKeyPair), <<>>)

\* checksum_address(&format!("{:02x}", my_address))
checksum_address(a) == <<"0x", a>>

\* ------------------------------------------------------------ the nodes
\* A URL as scheme, separator, authority.
UrlA == <<"http", "://", "a">>
UrlB == <<"https", "://", "b">>
UrlBad == <<"http", "://", "b ad">>
EthNode(url, gui_auth) == [url |-> url, gui_auth |-> gui_auth]
NodeInputs == {EthNode(UrlA, FALSE), EthNode(UrlB, TRUE), EthNode(UrlBad, FALSE)}

RECURSIVE SeqsUpTo(_, _)
SeqsUpTo(S, n) ==
    IF n = 0 THEN {<<>>}
    ELSE LET shorter == SeqsUpTo(S, n - 1) IN
         shorter \cup {Append(s, x) : s \in {q \in shorter : Len(q) = n - 1}, x \in S}

\* node.url.parse::<Uri>()
parse(url) ==
    IF Len(url) = 3 /\ url[1] \in {"http", "https"} /\ url[2] = "://"
       /\ url[3] \in {"a", "b"}
    THEN [ok |-> TRUE, uri |-> [scheme |-> url[1], authority |-> url[3]]]
    ELSE [ok |-> FALSE, uri |-> [scheme |-> "", authority |-> ""]]

HttpTransportNode(uri, gui_auth) == [uri |-> uri, gui_auth |-> gui_auth]

\* The URL loop that leaves out a node whose URL does not parse.
RECURSIVE parse_nodes_skip(_, _)
parse_nodes_skip(eth_nodes, http_nodes) ==
    IF eth_nodes = <<>> THEN [res |-> Ok, http_nodes |-> http_nodes]
    ELSE LET node == Head(eth_nodes)
             p == parse(node.url)
         IN IF ~p.ok THEN parse_nodes_skip(Tail(eth_nodes), http_nodes)
            ELSE parse_nodes_skip(Tail(eth_nodes),
                                  Append(http_nodes, HttpTransportNode(p.uri, node.gui_auth)))

\* The loop of build_http_transport that parses every node, in request order:
\* the nodes parsed so far, or the first URL that does not parse.
RECURSIVE parse_nodes(_, _)
parse_nodes(eth_nodes, http_nodes) ==
    IF eth_nodes = <<>> THEN [res |-> Ok, http_nodes |-> http_nodes]
    ELSE LET node == Head(eth_nodes)
             p == parse(node.url)
         IN IF ~p.ok THEN [res |-> Err("InvalidPayload", node.url[3]), http_nodes |-> <<>>]
            ELSE parse_nodes(Tail(eth_nodes),
                             Append(http_nodes, HttpTransportNode(p.uri, node.gui_auth)))

\* http_nodes.as_mut_slice().shuffle(&mut rng): every order the generator can give.
Bijections(n) == {p \in [1..n -> 1..n] : \A i, j \in 1..n : p[i] = p[j] => i = j}
shuffle(s) == {[i \in 1..Len(s) |-> s[p[i]]] : p \in Bijections(Len(s))}

\* GuiAuthValidationGenerator { coin_ticker, secret, address }
GuiAuthValidationGenerator(coin_ticker, secret, address) ==
    [coin_ticker |-> coin_ticker, secret |-> secret, address |-> address]

NoTransport == [kind |-> "none", nodes |-> <<>>, gui_auth_validation_generator |-> None]

build_single_http_transport(coin_ticker, address, key_pair, nodes) ==
    [kind |-> "http", nodes |-> nodes,
     gui_auth_validation_generator |->
        Some(GuiAuthValidationGenerator(coin_ticker, key_pair.secret, address))]

Web3Instance(web3, is_parity) == [web3 |-> web3, is_parity |-> is_parity]

\* build_metamask_transport: one client, never probed, never Parity.
build_metamask_transport(coin_ticker) ==
    LET web3 == [kind |-> "metamask", nodes |-> <<>>, gui_auth_validation_generator |-> None]
    IN [web3 |-> web3, web3_instances |-> <<Web3Instance(web3, FALSE)>>]

\* ---------------------------------------------------- the probe replies
\* A client-version string as its characters.
VersionGeth == <<"G", "e", "t", "h">>
VersionParity == <<"P", "a", "r", "i", "t", "y", "/", "2">>
ProbeFailed == [ok |-> FALSE, version |-> <<>>]
ProbeReplies == {ProbeFailed} \cup {[ok |-> TRUE, version |-> v] : v \in {VersionGeth, VersionParity}}

\* Version strings that spell the name of the Parity client in other ways.
VersionLower == <<"p", "a", "r", "i", "t", "y", "-", "e">>
VersionUpper == <<"O", "E", "/", "P", "A", "R", "I", "T", "Y">>
VersionMixed == <<"P", "a", "R", "i", "t", "y">>
VersionStrings == {VersionGeth, VersionParity, VersionLower, VersionUpper, VersionMixed}
VersionReplies == {ProbeFailed} \cup {[ok |-> TRUE, version |-> v] : v \in VersionStrings}

\* str::contains
contains(s, sub) ==
    \E i \in 0..(Len(s) - Len(sub)) : SubSeq(s, i + 1, i + Len(sub)) = sub

\* version.contains("Parity") || version.contains("parity")
is_parity(version) ==
    contains(version, <<"P", "a", "r", "i", "t", "y">>)
    \/ contains(version, <<"p", "a", "r", "i", "t", "y">>)

\* --------------------------------------------------------- the requests
Tickers == {"ETH", "BNB"}
TokenTickers == {"USDT"}
\* DEFAULT_REQUIRED_CONFIRMATIONS, and the literal of initialize_erc20_token.
DEFAULT_REQUIRED_CONFIRMATIONS == 1
TOKEN_DEFAULT_REQUIRED_CONFIRMATIONS == 1
\* ETH_DECIMALS
ETH_DECIMALS == 18

NodeA == EthNode(UrlA, FALSE)

\* EthActivationV2Request (the fields the pipeline branches on or stores).
EthActivationV2Request(nodes, rpc_mode, swap, fallback, confs) ==
    [nodes |-> nodes, rpc_mode |-> rpc_mode, swap_contract_address |-> swap,
     fallback_swap_contract |-> fallback, required_confirmations |-> confs]

\* One call of eth_coin_from_conf_and_request_v2: its arguments.
PlatformCall(ticker, conf, r, policy) ==
    [kind |-> "platform", ticker |-> ticker, conf |-> conf, req |-> r, priv_key_policy |-> policy]

PlatformConfs ==
    [derivation_path : DerivationPaths, required_confirmations : {None}]

PlatformCalls ==
    {PlatformCall(tk, c, EthActivationV2Request(n, m, sw, fb, rc), p) :
        tk \in Tickers, c \in PlatformConfs, n \in SeqsUpTo(NodeInputs, MaxNodes),
        m \in {"Http", "Metamask"}, sw \in SwapContracts,
        fb \in {None, Some(Address_default), Some("0xc2")}, rc \in {None},
        p \in EthPrivKeyBuildPolicy}

\* The calls of a session whose requests are all well formed: one reachable
\* node, a key pair from the passphrase, nothing optional set.
PlainConf == [derivation_path |-> None, required_confirmations |-> None]
PlainCalls ==
    {PlatformCall(tk, PlainConf, EthActivationV2Request(<<NodeA>>, "Http", "0xc1", None, None),
                  BuildPolicy("IguanaPrivKey", s)) :
        tk \in Tickers, s \in {"s1", "s2"}}

\* One call of EthCoin::initialize_erc20_token: its arguments and the token's
\* config (coin_conf(&ctx, &ticker)); `self` is picked when the call starts.
TokenCall(ticker, conf, params, protocol) ==
    [kind |-> "token", ticker |-> ticker, conf |-> conf, activation_params |-> params,
     protocol |-> protocol]
Erc20Protocol(platform, token_addr) == [platform |-> platform, token_addr |-> token_addr]
\* conf["decimals"].as_u64(): absent, zero, a u8 value, a value over u8.
TokenConfs == [decimals : {None, Some(0), Some(6), Some(262)}, required_confirmations : {None, Some(2)}]
TokenCalls ==
    {TokenCall(tk, c, [required_confirmations |-> rc], Erc20Protocol("ETH", "0xt1")) :
        tk \in TokenTickers, c \in TokenConfs, rc \in {None, Some(3)}}
PlainTokenCalls ==
    {TokenCall("USDT", [decimals |-> d, required_confirmations |-> None],
               [required_confirmations |-> None], Erc20Protocol("ETH", "0xt1")) :
        d \in {None, Some(6)}}

\* get_token_decimals(&self.web3, protocol.token_addr): the replies of the chain.
DecimalsReplies ==
    {[ok |-> FALSE, decimals |-> 0], [ok |-> TRUE, decimals |-> 8], [ok |-> TRUE, decimals |-> 12]}

\* ------------------------------------------------------------ the state
VARIABLES
    call,             \* call[t]: the arguments of task t's call
    pc,               \* pc[t]: where task t is suspended
    loc,              \* loc[t]: the local variables of task t's call
    result,           \* result[t]: Pending, Ok or the error returned
    coin,             \* coin[t]: the EthCoin returned, if any
    net,              \* net[t]: the remote calls task t has issued, in order
    crypto,           \* crypto[t]: the cryptographic operations task t has run
    NONCE_LOCK,       \* the process-wide map of nonce locks
    NONCE_LOCK_guard, \* the task holding the MutexGuard of NONCE_LOCK, or 0
    nonce_locks,      \* how many nonce locks new_nonce_lock has created
    ctx,              \* MmCtx: "running" or "stopped" (MmArc::stop)
    nonce_cs,         \* the coins inside a nonce read-and-increment
    dropped,          \* the coins that have been dropped
    subsystems,       \* the abortable subsystems created, each with its parent
    platform_coin     \* platform_coin[t]: the coin task t's token call was made on, or 0

vars == <<call, pc, loc, result, coin, net, crypto, NONCE_LOCK, NONCE_LOCK_guard,
          nonce_locks, ctx, nonce_cs, dropped, subsystems, platform_coin>>

NoLoc ==
    [my_address |-> "", priv_key_policy |-> NoPolicy, http_nodes |-> <<>>, idx |-> 0,
     web3_instances |-> <<>>, web3 |-> NoTransport, required_confirmations |-> 0,
     self |-> 0]

\* --------------------------------------- eth_coin_from_conf_and_request_v2
\* The checks without the one of swap_contract_address.
check_fallback_only(r) ==
    IF IsSome(r.fallback_swap_contract) /\ Unwrap(r.fallback_swap_contract) = Address_default
    THEN Err("InvalidFallbackSwapContract", "fallback_swap_contract can't be zero address")
    ELSE Ok

\* The checks without the one of fallback_swap_contract.
check_swap_only(r) ==
    IF r.swap_contract_address = Address_default
    THEN Err("InvalidSwapContractAddr", "swap_contract_address can't be zero address")
    ELSE Ok

\* The two zero-address checks with the one of fallback_swap_contract first.
check_fallback_first(r) ==
    IF IsSome(r.fallback_swap_contract) /\ Unwrap(r.fallback_swap_contract) = Address_default
    THEN Err("InvalidFallbackSwapContract", "fallback_swap_contract can't be zero address")
    ELSE IF r.swap_contract_address = Address_default
    THEN Err("InvalidSwapContractAddr", "swap_contract_address can't be zero address")
    ELSE Ok

\* The two zero-address checks that open the function.
check_swap_contracts(r) ==
    IF r.swap_contract_address = Address_default
    THEN Err("InvalidSwapContractAddr", "swap_contract_address can't be zero address")
    ELSE IF IsSome(r.fallback_swap_contract) /\ Unwrap(r.fallback_swap_contract) = Address_default
    THEN Err("InvalidFallbackSwapContract", "fallback_swap_contract can't be zero address")
    ELSE Ok

\* build_http_transport up to the shuffle without the empty check.
http_nodes_unchecked(eth_nodes) == parse_nodes(eth_nodes, <<>>)

\* build_http_transport up to the shuffle: the empty check and the URL loop.
http_nodes_of(eth_nodes) ==
    IF eth_nodes = <<>> THEN [res |-> Err("AtLeastOneNodeRequired", ""), http_nodes |-> <<>>]
    ELSE parse_nodes(eth_nodes, <<>>)

\* One turn of the probe loop in which a node that fails empties the list.
probe_push_reset(web3_instances, web3, reply) ==
    IF reply.ok THEN Append(web3_instances, Web3Instance(web3, is_parity(reply.version)))
    ELSE <<>>

\* One turn of the probe loop: the client pushed for a node that answered.
probe_push(web3_instances, web3, reply) ==
    IF reply.ok THEN Append(web3_instances, Web3Instance(web3, is_parity(reply.version)))
    ELSE web3_instances

\* build_http_transport after the probe loop, the composite client built over
\* the nodes that answered only.
http_transport_live_only(coin_ticker, address, key_pair, http_nodes, web3_instances) ==
    IF web3_instances = <<>>
    THEN [res |-> Err("UnreachableNodes", "Failed to get client version for all nodes"),
          web3 |-> NoTransport, web3_instances |-> <<>>]
    ELSE [res |-> Ok,
          web3 |-> build_single_http_transport(coin_ticker, address, key_pair,
                      [i \in 1..Len(web3_instances) |-> web3_instances[i].web3.nodes[1]]),
          web3_instances |-> web3_instances]

\* build_http_transport after the probe loop, without the is_empty check.
http_transport_unchecked(coin_ticker, address, key_pair, http_nodes, web3_instances) ==
    [res |-> Ok,
     web3 |-> build_single_http_transport(coin_ticker, address, key_pair, http_nodes),
     web3_instances |-> web3_instances]

\* build_http_transport after the probe loop.
http_transport_result(coin_ticker, address, key_pair, http_nodes, web3_instances) ==
    IF web3_instances = <<>>
    THEN [res |-> Err("UnreachableNodes", "Failed to get client version for all nodes"),
          web3 |-> NoTransport, web3_instances |-> <<>>]
    ELSE [res |-> Ok,
          web3 |-> build_single_http_transport(coin_ticker, address, key_pair, http_nodes),
          web3_instances |-> web3_instances]

\* The config's required_confirmations taken before the request's.
required_confirmations_config_first(r, conf) ==
    unwrap_or(conf.required_confirmations,
              unwrap_or(r.required_confirmations, DEFAULT_REQUIRED_CONFIRMATIONS))

\* req.required_confirmations, else the config's, else the default.
required_confirmations_of(r, conf) ==
    unwrap_or(r.required_confirmations,
              unwrap_or(conf.required_confirmations, DEFAULT_REQUIRED_CONFIRMATIONS))

\* The match on (rpc_mode, priv_key_policy) taken whatever the policy is.
transport_arm_by_mode(rpc_mode, priv_key_policy) ==
    IF rpc_mode = "Http" THEN "http" ELSE "metamask"

\* match (req.rpc_mode, &priv_key_policy): the arm taken.
transport_arm(rpc_mode, priv_key_policy) ==
    IF rpc_mode = "Http" /\ priv_key_policy.tag = "KeyPair" THEN "http"
    ELSE IF rpc_mode = "Metamask" /\ priv_key_policy.tag = "Metamask" THEN "metamask"
    ELSE "incompatible"

\* The function from its entry to its first suspension point: the checks, the
\* key policy and the match on (rpc_mode, priv_key_policy).
\* stage: "failed" (res is the error), "probe" (the probe loop is next, over a
\* shuffle of http_nodes) or "lock" (the transport is built).
activation_entry(c) ==
    LET checked == check_swap_contracts(c.req)
        kp == build_address_and_priv_key_policy(c.conf, c.priv_key_policy)
        parsed == http_nodes_of(c.req.nodes)
        arm == transport_arm(c.req.rpc_mode, kp.priv_key_policy)
        out(stage, res, nodes, called) ==
            [stage |-> stage, res |-> res, http_nodes |-> nodes, kp_called |-> called,
             kp |-> IF called THEN kp ELSE KpErr(res, <<>>)]
    IN
    IF checked # Ok THEN out("failed", checked, <<>>, FALSE)
    ELSE IF kp.res # Ok THEN out("failed", kp.res, <<>>, TRUE)
    ELSE IF arm = "http" THEN
        IF parsed.res # Ok THEN out("failed", parsed.res, <<>>, TRUE)
        ELSE out("probe", Pending, parsed.http_nodes, TRUE)
    ELSE IF arm = "metamask" THEN
        out("lock", Pending, <<>>, TRUE)
    ELSE out("failed", Err("ActivationFailed", c.ticker), <<>>, TRUE)

\* What key-policy resolution did in a call: whether it ran, its result, and
\* the cryptographic operations it performed.
NoCrypto == [kp_called |-> FALSE, kp_res |-> Pending, ops |-> <<>>]
crypto_of(e) ==
    [kp_called |-> e.kp_called, kp_res |-> IF e.kp_called THEN e.kp.res ELSE Pending,
     ops |-> e.kp.crypto]

\* ---------------------------------------------------------- NONCE_LOCK
\* map.insert(key, new_nonce_lock()): an entry that is there is replaced.
entry_insert(map, key, fresh) ==
    [k \in DOMAIN map \cup {key} |-> IF k = key THEN fresh ELSE map[k]]

\* map.entry(key).or_insert_with(new_nonce_lock): the map afterwards.
entry_or_insert_with(map, key, fresh) ==
    IF key \in DOMAIN map THEN map
    ELSE [k \in DOMAIN map \cup {key} |-> IF k = key THEN fresh ELSE map[k]]

\* The key under which an activation looks up its nonce lock.
nonce_lock_key(ticker, my_address) == ticker

\* ------------------------------------------------------ abortable system
\* ctx.abortable_system.create_subsystem(): refused once the system is aborted.
create_subsystem(c) == c = "running"

\* The root abortable system, the one of MmCtx.
ROOT == 0

\* The subsystem create_subsystem returns: a child of the system it is called on.
Subsystem(id, parent) == [id |-> id, parent |-> parent]

\* EthCoinImpl
EthCoinImpl(ticker, coin_type, l, swap, fallback, decimals, nonce_lock, scope) ==
    [ticker |-> ticker, coin_type |-> coin_type, my_address |-> l.my_address,
     priv_key_policy |-> l.priv_key_policy, swap_contract_address |-> swap,
     fallback_swap_contract |-> fallback, decimals |-> decimals, web3 |-> l.web3,
     web3_instances |-> l.web3_instances,
     required_confirmations |-> l.required_confirmations, nonce_lock |-> nonce_lock,
     abortable_system |-> scope]
CoinTypeEth == [tag |-> "Eth", platform |-> "", token_addr |-> ""]
CoinTypeErc20(platform, token_addr) == [tag |-> "Erc20", platform |-> platform, token_addr |-> token_addr]

\* ---------------------------------------------------------------- Init
Idle ==
    /\ pc = [t \in Tasks |-> "idle"]
    /\ loc = [t \in Tasks |-> NoLoc]
    /\ result = [t \in Tasks |-> Pending]
    /\ coin = [t \in Tasks |-> None]
    /\ net = [t \in Tasks |-> <<>>]
    /\ crypto = [t \in Tasks |-> NoCrypto]
    /\ NONCE_LOCK = <<>>
    /\ NONCE_LOCK_guard = 0
    /\ nonce_locks = 0
    /\ ctx = "running"
    /\ nonce_cs = {}
    /\ dropped = {}
    /\ subsystems = {}
    /\ platform_coin = [t \in Tasks |-> 0]

\* A session of well-formed calls, any of them concurrent.
Init ==
    /\ call \in [Tasks -> PlainCalls \cup PlainTokenCalls]
    /\ Idle

\* A task that is given no call.
NoCall == [kind |-> "none"]

\* One activation with any request (task 1), and one token derivation from
\* its coin (task 2).
InitActivation ==
    /\ \E p \in PlatformCalls, k \in PlainTokenCalls :
          call = [t \in Tasks |-> IF t = 1 THEN p ELSE IF t = 2 THEN k ELSE NoCall]
    /\ Idle

\* The well-formed activations with every choice of required_confirmations in
\* the request and in the config.
ConfirmationCalls ==
    {PlatformCall(tk, [derivation_path |-> None, required_confirmations |-> cc],
                  EthActivationV2Request(<<NodeA>>, "Http", "0xc1", None, rc),
                  BuildPolicy("IguanaPrivKey", "s1")) :
        tk \in Tickers, cc \in {None, Some(2)}, rc \in {None, Some(0), Some(3)}}

\* The well-formed direct-node activations over every list of parsable nodes.
ProbeCalls ==
    {PlatformCall("ETH", PlainConf, EthActivationV2Request(n, "Http", "0xc1", None, None),
                  BuildPolicy("IguanaPrivKey", "s1")) :
        n \in SeqsUpTo({EthNode(UrlA, FALSE), EthNode(UrlB, TRUE)}, MaxNodes) \ {<<>>}}

\* One direct-node activation over parsable nodes (task 1).
InitProbe ==
    /\ \E p \in ProbeCalls : call = [t \in Tasks |-> IF t = 1 THEN p ELSE NoCall]
    /\ Idle

\* The same direct-node activation run twice (tasks 1 and 2), each with its
\* own shuffle.
InitShuffle ==
    /\ \E p \in ProbeCalls : call = [t \in Tasks |-> IF t <= 2 THEN p ELSE NoCall]
    /\ Idle

\* One well-formed activation (task 1) and one token derivation from its coin
\* with any config and parameters (task 2).
InitToken ==
    /\ \E p \in ConfirmationCalls, k \in TokenCalls :
          call = [t \in Tasks |-> IF t = 1 THEN p ELSE IF t = 2 THEN k ELSE NoCall]
    /\ Idle

\* ------------------------------------------------------------- actions
Return(t, res, c) ==
    /\ pc' = [pc EXCEPT ![t] = "done"]
    /\ loc' = [loc EXCEPT ![t] = NoLoc]
    /\ result' = [result EXCEPT ![t] = res]
    /\ coin' = [coin EXCEPT ![t] = c]

\* eth_coin_from_conf_and_request_v2, from its entry to the first probe.
Activate(t) ==
    /\ pc[t] = "idle"
    /\ call[t].kind = "platform"
    /\ LET e == activation_entry(call[t]) IN
       /\ crypto' = [crypto EXCEPT ![t] = crypto_of(e)]
       /\ CASE e.stage = "failed" -> Return(t, e.res, None)
            [] e.stage = "probe" /\ e.http_nodes # <<>> ->
                 /\ \E shuffled \in shuffle(e.http_nodes) :
                       loc' = [loc EXCEPT ![t] =
                                 [NoLoc EXCEPT !.my_address = e.kp.my_address,
                                               !.priv_key_policy = e.kp.priv_key_policy,
                                               !.http_nodes = shuffled,
                                               !.idx = 1]]
                 /\ pc' = [pc EXCEPT ![t] = "probe"]
                 /\ UNCHANGED <<result, coin>>
            [] e.stage = "probe" /\ e.http_nodes = <<>> ->
                 \* no node to probe: the loop body never runs
                 LET built == http_transport_result(call[t].ticker,
                                                    checksum_address(e.kp.my_address),
                                                    e.kp.priv_key_policy.key_pair, <<>>, <<>>)
                 IN IF built.res # Ok THEN Return(t, built.res, None)
                    ELSE /\ loc' = [loc EXCEPT ![t] =
                                     [NoLoc EXCEPT !.my_address = e.kp.my_address,
                                                   !.priv_key_policy = e.kp.priv_key_policy,
                                                   !.web3 = built.web3,
                                                   !.web3_instances = built.web3_instances,
                                                   !.required_confirmations =
                                                       required_confirmations_of(call[t].req, call[t].conf)]]
                         /\ pc' = [pc EXCEPT ![t] = "lock"]
                         /\ UNCHANGED <<result, coin>>
            [] OTHER ->
                 LET m == build_metamask_transport(call[t].ticker) IN
                 /\ loc' = [loc EXCEPT ![t] =
                              [NoLoc EXCEPT !.my_address = e.kp.my_address,
                                            !.priv_key_policy = e.kp.priv_key_policy,
                                            !.web3 = m.web3,
                                            !.web3_instances = m.web3_instances,
                                            !.required_confirmations =
                                                required_confirmations_of(call[t].req, call[t].conf)]]
                 /\ pc' = [pc EXCEPT ![t] = "lock"]
                 /\ UNCHANGED <<result, coin>>
    /\ UNCHANGED <<call, net, NONCE_LOCK, NONCE_LOCK_guard,
                   nonce_locks, ctx, nonce_cs, dropped, subsystems, platform_coin>>

\* One turn of the probe loop of build_http_transport: client_version().await
\* answers or fails; after the last node, the rest of the function up to
\* NONCE_LOCK.lock(). The node's reply is one of `replies`.
ProbeWith(t, replies) ==
    /\ pc[t] = "probe"
    /\ \E reply \in replies :
        LET l == loc[t]
            node == l.http_nodes[l.idx]
            address == checksum_address(l.my_address)
            key_pair == l.priv_key_policy.key_pair
            web3 == build_single_http_transport(call[t].ticker, address, key_pair, <<node>>)
            pushed == probe_push(l.web3_instances, web3, reply)
            built == http_transport_result(call[t].ticker, address, key_pair,
                                           l.http_nodes, pushed)
        IN
        /\ net' = [net EXCEPT ![t] = Append(@, [uri |-> node.uri, ok |-> reply.ok,
                                                 version |-> reply.version])]
        /\ IF l.idx < Len(l.http_nodes)
           THEN /\ loc' = [loc EXCEPT ![t].idx = @ + 1, ![t].web3_instances = pushed]
                /\ UNCHANGED <<pc, result, coin>>
           ELSE IF built.res # Ok THEN Return(t, built.res, None)
           ELSE /\ loc' = [loc EXCEPT ![t].idx = 0,
                                      ![t].web3_instances = built.web3_instances,
                                      ![t].web3 = built.web3,
                                      ![t].required_confirmations =
                                          required_confirmations_of(call[t].req, call[t].conf)]
                /\ pc' = [pc EXCEPT ![t] = "lock"]
                /\ UNCHANGED <<result, coin>>
    /\ UNCHANGED <<call, crypto, NONCE_LOCK, NONCE_LOCK_guard,
                   nonce_locks, ctx, nonce_cs, dropped, subsystems, platform_coin>>

\* A probe answered by a Geth or a Parity node, or not at all.
Probe(t) == ProbeWith(t, ProbeReplies)

\* A probe answered with any of the version strings, or not at all.
ProbeVersions(t) == ProbeWith(t, VersionReplies)

\* NONCE_LOCK.lock() taken before build_http_transport, ahead of the probes.
LockRegistryEarly(t) ==
    /\ pc[t] \in {"probe", "lock"}
    /\ NONCE_LOCK_guard = 0
    /\ NONCE_LOCK_guard' = t
    /\ pc' = [pc EXCEPT ![t] = IF pc[t] = "lock" THEN "locked" ELSE "probe"]
    /\ UNCHANGED <<call, loc, result, coin, net, crypto, NONCE_LOCK, nonce_locks, ctx,
                   nonce_cs, dropped, subsystems, platform_coin>>

\* let mut map = NONCE_LOCK.lock().unwrap();
LockRegistry(t) ==
    /\ pc[t] = "lock"
    /\ NONCE_LOCK_guard = 0
    /\ NONCE_LOCK_guard' = t
    /\ pc' = [pc EXCEPT ![t] = "locked"]
    /\ UNCHANGED <<call, loc, result, coin, net, crypto, NONCE_LOCK, nonce_locks, ctx,
                   nonce_cs, dropped, subsystems, platform_coin>>

\* The rest of eth_coin_from_conf_and_request_v2: the entry of NONCE_LOCK, the
\* subsystem, the coin; `map` is dropped when the function returns.
Assemble(t) ==
    /\ pc[t] = "locked"
    /\ LET key == nonce_lock_key(call[t].ticker, loc[t].my_address)
           map == entry_or_insert_with(NONCE_LOCK, key, nonce_locks + 1)
           nonce_lock == map[key]
       IN
       /\ NONCE_LOCK' = map
       /\ nonce_locks' = IF nonce_lock = nonce_locks + 1 THEN nonce_locks + 1 ELSE nonce_locks
       /\ IF create_subsystem(ctx)
          THEN /\ subsystems' = subsystems \cup {Subsystem(t, ROOT)}
               /\ Return(t, Ok, Some(EthCoinImpl(call[t].ticker, CoinTypeEth, loc[t],
                                                 call[t].req.swap_contract_address,
                                                 call[t].req.fallback_swap_contract,
                                                 ETH_DECIMALS, nonce_lock, t)))
          ELSE /\ UNCHANGED subsystems
               /\ Return(t, Err("InternalError", "aborted"), None)
    /\ NONCE_LOCK_guard' = 0
    /\ UNCHANGED <<call, net, crypto, ctx, nonce_cs, dropped, platform_coin>>

\* ------------------------------------------- EthCoin::initialize_erc20_token
\* transport.clone() with the GuiAuthValidationGenerator's coin_ticker rewritten.
with_coin_ticker(transport, ticker) ==
    IF IsSome(transport.gui_auth_validation_generator)
    THEN [transport EXCEPT !.gui_auth_validation_generator =
            Some([Unwrap(@) EXCEPT !.coin_ticker = ticker])]
    ELSE transport

\* The clients of the token rebuilt without the platform's is_parity.
token_web3_instances_not_parity(web3_instances, ticker) ==
    [i \in 1..Len(web3_instances) |->
        Web3Instance(with_coin_ticker(web3_instances[i].web3, ticker), FALSE)]

\* self.web3_instances.iter().map(..).collect()
token_web3_instances(web3_instances, ticker) ==
    [i \in 1..Len(web3_instances) |->
        Web3Instance(with_coin_ticker(web3_instances[i].web3, ticker),
                     web3_instances[i].is_parity)]

\* activation_params.required_confirmations, else the config's, else 1.
token_required_confirmations(params, conf) ==
    unwrap_or(params.required_confirmations,
              unwrap_or(conf.required_confirmations, TOKEN_DEFAULT_REQUIRED_CONFIRMATIONS))

\* conf["decimals"] decides without a query: `d as u8`.
U8 == 256
decimals_as_u8(d) == d % U8
needs_decimals_query(conf) == ~IsSome(conf.decimals) \/ Unwrap(conf.decimals) = 0

\* The decimals when a failed query falls back on the platform's 18.
token_decimals_or_default(reply) ==
    [ok |-> TRUE, decimals |-> IF reply.ok THEN reply.decimals ELSE ETH_DECIMALS]

\* get_token_decimals(..).await.map_err(EthActivationV2Error::InternalError)?
token_decimals_of(reply) == [ok |-> reply.ok, decimals |-> reply.decimals]

\* A nonce lock of the token's own.
token_new_nonce_lock(self) == nonce_locks + 1

\* nonce_lock: self.nonce_lock.clone()
token_nonce_lock(self) == self.nonce_lock

\* ctx.abortable_system.create_subsystem(): the system the token's is a child of.
token_subsystem_parent(self) == ROOT

\* The function after the decimals are known: the clients, the subsystem, the token.
Erc20Token(t, s, decimals) ==
    LET c == call[t]
        self == Unwrap(coin[s])
        l == [NoLoc EXCEPT !.my_address = self.my_address,
                           !.priv_key_policy = self.priv_key_policy,
                           !.web3_instances = token_web3_instances(self.web3_instances, c.ticker),
                           !.web3 = with_coin_ticker(self.web3, c.ticker),
                           !.required_confirmations =
                               token_required_confirmations(c.activation_params, c.conf)]
    IN IF create_subsystem(ctx)
       THEN /\ subsystems' = subsystems \cup {Subsystem(t, token_subsystem_parent(self))}
            /\ Return(t, Ok, Some(EthCoinImpl(c.ticker,
                                              CoinTypeErc20(c.protocol.platform, c.protocol.token_addr),
                                              l, self.swap_contract_address,
                                              self.fallback_swap_contract, decimals,
                                              token_nonce_lock(self), t)))
       ELSE /\ UNCHANGED subsystems
            /\ Return(t, Err("InternalError", "aborted"), None)

\* initialize_erc20_token on the platform coin of task s, up to the decimals
\* query, or to its end when the config gives the decimals.
InitializeErc20(t, s) ==
    /\ pc[t] = "idle"
    /\ call[t].kind = "token"
    /\ IsSome(coin[s]) /\ Unwrap(coin[s]).coin_type.tag = "Eth" /\ s \notin dropped
    /\ platform_coin' = [platform_coin EXCEPT ![t] = s]
    /\ IF ctx = "dropped"
       THEN /\ Return(t, Err("InternalError", "No context"), None)
            /\ UNCHANGED subsystems
       ELSE IF needs_decimals_query(call[t].conf)
       THEN /\ pc' = [pc EXCEPT ![t] = "decimals"]
            /\ loc' = [loc EXCEPT ![t].self = s]
            /\ UNCHANGED <<result, coin, subsystems>>
       ELSE Erc20Token(t, s, decimals_as_u8(Unwrap(call[t].conf.decimals)))
    /\ UNCHANGED <<call, net, crypto, NONCE_LOCK, NONCE_LOCK_guard, nonce_locks, ctx,
                   nonce_cs, dropped>>

\* get_token_decimals(&self.web3, protocol.token_addr).await answers or fails;
\* then the rest of initialize_erc20_token.
TokenDecimals(t) ==
    /\ pc[t] = "decimals"
    /\ \E reply \in DecimalsReplies :
        LET decimals == token_decimals_of(reply) IN
        /\ net' = [net EXCEPT ![t] =
                     Append(@, [uri |-> [scheme |-> "eth_call",
                                         authority |-> call[t].protocol.token_addr],
                                ok |-> reply.ok, decimals |-> reply.decimals])]
        /\ IF decimals.ok THEN Erc20Token(t, loc[t].self, decimals.decimals)
           ELSE /\ Return(t, Err("InternalError", "decimals"), None)
                /\ UNCHANGED subsystems
    /\ UNCHANGED <<call, crypto, NONCE_LOCK, NONCE_LOCK_guard, nonce_locks, ctx,
                   nonce_cs, dropped, platform_coin>>

\* --------------------------------------------------------- environment
InFlight(t) == pc[t] \notin {"idle", "done"}

\* MmArc::stop: the root abortable system is aborted.
Stop ==
    /\ ctx = "running"
    /\ ctx' = "stopped"
    /\ UNCHANGED <<call, pc, loc, result, coin, net, crypto, NONCE_LOCK, NONCE_LOCK_guard,
                   nonce_locks, nonce_cs, dropped, subsystems, platform_coin>>

\* The last MmArc is dropped: no call that holds one is in flight.
DropCtx ==
    /\ ctx = "stopped"
    /\ \A t \in Tasks : ~InFlight(t)
    /\ ctx' = "dropped"
    /\ UNCHANGED <<call, pc, loc, result, coin, net, crypto, NONCE_LOCK, NONCE_LOCK_guard,
                   nonce_locks, nonce_cs, dropped, subsystems, platform_coin>>

Live(t) == IsSome(coin[t]) /\ t \notin dropped

\* A transaction of coin t takes the coin's nonce_lock and reads the nonce.
NonceBegin(t) ==
    /\ Live(t)
    /\ t \notin nonce_cs
    /\ \A u \in nonce_cs : Unwrap(coin[u]).nonce_lock # Unwrap(coin[t]).nonce_lock
    /\ nonce_cs' = nonce_cs \cup {t}
    /\ UNCHANGED <<call, pc, loc, result, coin, net, crypto, NONCE_LOCK, NONCE_LOCK_guard,
                   nonce_locks, ctx, dropped, subsystems, platform_coin>>

\* It has incremented the nonce and releases the lock.
NonceEnd(t) ==
    /\ t \in nonce_cs
    /\ nonce_cs' = nonce_cs \ {t}
    /\ UNCHANGED <<call, pc, loc, result, coin, net, crypto, NONCE_LOCK, NONCE_LOCK_guard,
                   nonce_locks, ctx, dropped, subsystems, platform_coin>>

\* The coin of task t is dropped (deactivation): its abortable system goes with it.
DropCoin(t) ==
    /\ Live(t)
    /\ t \notin nonce_cs
    /\ \A u \in Tasks : ~(InFlight(u) /\ call[u].kind = "token" /\ loc[u].self = t)
    /\ dropped' = dropped \cup {t}
    /\ UNCHANGED <<call, pc, loc, result, coin, net, crypto, NONCE_LOCK, NONCE_LOCK_guard,
                   nonce_locks, ctx, nonce_cs, subsystems, platform_coin>>

Next ==
    \/ \E t \in Tasks : Activate(t)
    \/ \E t \in Tasks : Probe(t)
    \/ \E t \in Tasks : LockRegistry(t)
    \/ \E t \in Tasks : Assemble(t)
    \/ \E t, s \in Tasks : InitializeErc20(t, s)
    \/ \E t \in Tasks : TokenDecimals(t)
    \/ \E t \in Tasks : NonceBegin(t)
    \/ \E t \in Tasks : NonceEnd(t)
    \/ \E t \in Tasks : DropCoin(t)
    \/ Stop
    \/ DropCtx

\* The calls and the shutdown of the context, without the users of the coins.
NextActivation ==
    \/ \E t \in Tasks : Activate(t)
    \/ \E t \in Tasks : Probe(t)
    \/ \E t \in Tasks : LockRegistry(t)
    \/ \E t \in Tasks : Assemble(t)
    \/ \E t, s \in Tasks : InitializeErc20(t, s)
    \/ \E t \in Tasks : TokenDecimals(t)
    \/ Stop
    \/ DropCtx

\* One activation whose nodes answer with any version string.
NextProbe ==
    \/ \E t \in Tasks : Activate(t)
    \/ \E t \in Tasks : ProbeVersions(t)
    \/ \E t \in Tasks : LockRegistry(t)
    \/ \E t \in Tasks : Assemble(t)
    \/ Stop
    \/ DropCtx

\* The activations alone, the context running.
NextShuffle ==
    \/ \E t \in Tasks : Activate(t)
    \/ \E t \in Tasks : Probe(t)
    \/ \E t \in Tasks : LockRegistry(t)
    \/ \E t \in Tasks : Assemble(t)

Spec == Init /\ [][Next]_vars
SpecActivation == InitActivation /\ [][NextActivation]_vars
SpecToken == InitToken /\ [][NextActivation]_vars
SpecProbe == InitProbe /\ [][NextProbe]_vars
SpecShuffle == InitShuffle /\ [][NextShuffle]_vars

\* ------------------------------------------------------------- claims
Coins == {t \in Tasks : IsSome(coin[t])}
TheCoin(t) == Unwrap(coin[t])
Platforms == {t \in Coins : TheCoin(t).coin_type.tag = "Eth"}
Returned(t) == pc[t] = "done"
Failed(t) == Returned(t) /\ result[t] # Ok
\* Task t returns in this step.
Returns(t) == pc[t] # "done" /\ pc'[t] = "done"

\* C1: after any activations and token derivations, two coins with the same
\* resolved account address hold the same nonce lock, and two coins with
\* different addresses hold different nonce locks.
C1_HandlePerAddress ==
    \A t, u \in Coins :
        (TheCoin(t).my_address = TheCoin(u).my_address)
            <=> (TheCoin(t).nonce_lock = TheCoin(u).nonce_lock)

\* C2: two coins that share an account are never both inside a nonce
\* read-and-increment, each holding its own coin's nonce lock.
C2_NoInterleavingPerAccount ==
    \A t, u \in nonce_cs :
        t # u => TheCoin(t).my_address # TheCoin(u).my_address

\* C3: under any interleaving of activations the look-up-or-insert of NONCE_LOCK
\* is idempotent and persistent: an entry is never replaced nor removed (also
\* when a coin is dropped or the context stops), a step creates a lock exactly
\* when it adds a key, at most one, and every platform coin ever returned
\* for a key holds the lock the map has for that key.
C3_RegistryIdempotentPersistent ==
    [][/\ \A k \in DOMAIN NONCE_LOCK :
            k \in DOMAIN NONCE_LOCK' /\ NONCE_LOCK'[k] = NONCE_LOCK[k]
       /\ nonce_locks' - nonce_locks = Cardinality(DOMAIN NONCE_LOCK' \ DOMAIN NONCE_LOCK)
       /\ nonce_locks' - nonce_locks <= 1
       /\ \A k \in DOMAIN NONCE_LOCK' \ DOMAIN NONCE_LOCK : NONCE_LOCK'[k] = nonce_locks'
       /\ \A t \in Tasks :
            (IsSome(coin'[t]) /\ Unwrap(coin'[t]).coin_type.tag = "Eth") =>
                /\ Unwrap(coin'[t]).ticker \in DOMAIN NONCE_LOCK'
                /\ NONCE_LOCK'[Unwrap(coin'[t]).ticker] = Unwrap(coin'[t]).nonce_lock
      ]_vars

\* Two activations of one ticker have both returned a coin and the first
\* coin has been dropped.
C3_Witness ==
    \E t, u \in Platforms :
        /\ t # u
        /\ TheCoin(t).ticker = TheCoin(u).ticker
        /\ t \in dropped
        /\ nonce_locks = 1

\* C4: a platform activation that returns an error leaves NONCE_LOCK as it was.
C4_FailedActivationLeavesRegistry ==
    [][\A t \in Tasks :
          (call[t].kind = "platform" /\ Returns(t) /\ result'[t] # Ok)
              => NONCE_LOCK' = NONCE_LOCK
      ]_vars

\* The platform activations that went through the direct-node transport to the
\* end of its probe loop: every configured endpoint was probed once.
IsPlatformCall(t) == call[t].kind = "platform"
NodesOf(t) == call[t].req.nodes
Answers(t) == SelectSeq(net[t], LAMBDA e : e.ok)
Probed(t) ==
    /\ IsPlatformCall(t)
    /\ call[t].req.rpc_mode = "Http"
    /\ Returned(t)
    /\ NodesOf(t) # <<>>
    /\ Len(net[t]) = Len(NodesOf(t))

\* The clients of a returned coin against the answers of the probes: one
\* client per endpoint that answered, in the order of the answers, and the
\* composite client over every configured endpoint.
TransportMatchesProbes(t) ==
    LET c == TheCoin(t)
        n == Len(NodesOf(t))
    IN
    /\ Len(c.web3_instances) = Len(Answers(t))
    /\ \A j \in 1..Len(c.web3_instances) :
          /\ Len(c.web3_instances[j].web3.nodes) = 1
          /\ c.web3_instances[j].web3.nodes[1].uri = Answers(t)[j].uri
    /\ Len(c.web3.nodes) = n
    /\ \E p \in Bijections(n) :
          \A i \in 1..n :
              /\ parse(NodesOf(t)[p[i]].url).ok
              /\ c.web3.nodes[i] =
                    HttpTransportNode(parse(NodesOf(t)[p[i]].url).uri, NodesOf(t)[p[i]].gui_auth)

PartialAnswers(t) ==
    Probed(t) /\ 0 < Len(Answers(t)) /\ Len(Answers(t)) < Len(NodesOf(t))

\* C5 (as claimed): in direct-node mode, when K of the N configured endpoints
\* answer the probe, 0 < K < N, activation succeeds, web3_instances has K
\* entries, one per answering endpoint, and the composite client is over all N.
C5_PartialAnswersSucceed ==
    \A t \in Tasks :
        PartialAnswers(t) => (result[t] = Ok /\ IsSome(coin[t]) /\ TransportMatchesProbes(t))

\* C5 (amended): in direct-node mode, when K of the N configured endpoints answer
\* the probe, 0 < K < N, activation succeeds unless the context was stopped
\* before the coin's abortable subsystem is created, in which case it fails
\* with InternalError; when it succeeds, web3_instances has K entries, one per
\* answering endpoint, and the composite client is over all N.
C5_PartialAnswersSucceedUnlessStopped ==
    \A t \in Tasks :
        PartialAnswers(t) =>
            IF result[t] = Ok THEN IsSome(coin[t]) /\ TransportMatchesProbes(t)
            ELSE result[t] = Err("InternalError", "aborted") /\ ctx # "running" /\ coin[t] = None

C5_Witness ==
    \E t \in Tasks :
        /\ PartialAnswers(t)
        /\ result[t] = Ok
        /\ Len(NodesOf(t)) = MaxNodes
        /\ Len(TheCoin(t).web3_instances) = 1

\* C6: in direct-node mode, when every configured endpoint was probed and none
\* answered, activation fails with UnreachableNodes; and every coin returned,
\* platform or token, has at least one per-node client.
C6_NoAnswerUnreachable ==
    /\ \A t \in Tasks :
          (Probed(t) /\ Len(Answers(t)) = 0) => (result[t].kind = "UnreachableNodes" /\ coin[t] = None)
    /\ \A t \in Coins : TheCoin(t).web3_instances # <<>>

C6_Witness ==
    \E t \in Tasks :
        /\ Probed(t)
        /\ Len(NodesOf(t)) = MaxNodes
        /\ Len(Answers(t)) = 0
        /\ result[t].kind = "UnreachableNodes"

\* C7: an activation whose swap_contract_address is the zero address fails with
\* InvalidSwapContractAddr in its first step, and has issued no remote call.
C7_ZeroSwapContract ==
    \A t \in Tasks :
        (IsPlatformCall(t) /\ call[t].req.swap_contract_address = Address_default /\ pc[t] # "idle")
            => /\ Returned(t)
               /\ result[t].kind = "InvalidSwapContractAddr"
               /\ coin[t] = None
               /\ net[t] = <<>>

\* The zero address with nodes to probe and a zero fallback contract as well.
C7_Witness ==
    \E t \in Tasks :
        /\ IsPlatformCall(t)
        /\ call[t].req.swap_contract_address = Address_default
        /\ call[t].req.fallback_swap_contract = Some(Address_default)
        /\ call[t].req.rpc_mode = "Http"
        /\ Len(NodesOf(t)) = MaxNodes
        /\ Returned(t)

ZeroFallback(t) ==
    IsPlatformCall(t) /\ call[t].req.fallback_swap_contract = Some(Address_default)

\* C8 (as claimed): an activation whose fallback_swap_contract is present and
\* zero fails with InvalidFallbackSwapContract.
C8_ZeroFallback ==
    \A t \in Tasks :
        (ZeroFallback(t) /\ Returned(t)) => result[t].kind = "InvalidFallbackSwapContract"

\* C8 (amended): an activation whose fallback_swap_contract is present and zero
\* and whose swap_contract_address is not zero fails with
\* InvalidFallbackSwapContract, in its first step.
C8_ZeroFallbackNonzeroSwap ==
    \A t \in Tasks :
        (ZeroFallback(t) /\ call[t].req.swap_contract_address # Address_default /\ pc[t] # "idle")
            => /\ Returned(t)
               /\ result[t].kind = "InvalidFallbackSwapContract"
               /\ coin[t] = None

C8_Witness ==
    \E t \in Tasks :
        /\ ZeroFallback(t)
        /\ call[t].req.swap_contract_address # Address_default
        /\ Returned(t)

EmptyNodes(t) ==
    IsPlatformCall(t) /\ call[t].req.rpc_mode = "Http" /\ NodesOf(t) = <<>>

\* C9 (as claimed): a direct-node activation with an empty nodes list fails with
\* AtLeastOneNodeRequired before any endpoint is probed.
C9_EmptyNodes ==
    \A t \in Tasks :
        (EmptyNodes(t) /\ Returned(t))
            => (result[t].kind = "AtLeastOneNodeRequired" /\ net[t] = <<>>)

\* C9 (amended): a direct-node activation with an empty nodes list whose swap
\* contract addresses pass the zero checks and whose key policy resolves to a
\* key pair fails with AtLeastOneNodeRequired before any endpoint is probed.
C9_EmptyNodesAfterKeyPolicy ==
    \A t \in Tasks :
        (/\ EmptyNodes(t)
         /\ call[t].req.swap_contract_address # Address_default
         /\ call[t].req.fallback_swap_contract # Some(Address_default)
         /\ call[t].priv_key_policy.tag # "Metamask"
         /\ crypto[t].kp_called /\ crypto[t].kp_res = Ok)
            => /\ Returned(t)
               /\ result[t].kind = "AtLeastOneNodeRequired"
               /\ coin[t] = None
               /\ net[t] = <<>>

C9_Witness ==
    \E t \in Tasks :
        /\ EmptyNodes(t)
        /\ crypto[t].kp_called /\ crypto[t].kp_res = Ok
        /\ call[t].priv_key_policy.tag = "GlobalHDAccount"
        /\ result[t].kind = "AtLeastOneNodeRequired"

\* C10: when key-policy resolution runs for a GlobalHDAccount policy and the
\* config has no derivation_path, it fails with DerivationPathIsNotSet; when
\* the derivation_path is there and malformed, with
\* ErrorDeserializingDerivationPath; either is the activation's error, no
\* secret is derived, no key pair is built and no coin is returned.
C10_DerivationPath ==
    \A t \in Tasks :
        (IsPlatformCall(t) /\ call[t].priv_key_policy.tag = "GlobalHDAccount" /\ crypto[t].kp_called)
            => /\ call[t].conf.derivation_path = None =>
                    /\ crypto[t].kp_res.kind = "DerivationPathIsNotSet"
                    /\ result[t] = crypto[t].kp_res
                    /\ crypto[t].ops = <<>>
                    /\ coin[t] = None
               /\ call[t].conf.derivation_path = Some(MalformedPath) =>
                    /\ crypto[t].kp_res.kind = "ErrorDeserializingDerivationPath"
                    /\ result[t] = crypto[t].kp_res
                    /\ crypto[t].ops = <<>>
                    /\ coin[t] = None

C10_Witness ==
    \E t \in Tasks :
        /\ IsPlatformCall(t)
        /\ call[t].priv_key_policy = BuildPolicy("GlobalHDAccount", "hd1")
        /\ call[t].conf.derivation_path = Some(MalformedPath)
        /\ crypto[t].kp_called
        /\ Returned(t)

\* The errors of EthActivationV2Error that report an invalid request or config.
ValidationErrors ==
    {"InvalidPayload", "InvalidSwapContractAddr", "InvalidFallbackSwapContract",
     "AtLeastOneNodeRequired", "DerivationPathIsNotSet", "ErrorDeserializingDerivationPath"}

\* The validation errors build_http_transport returns, after key-policy resolution.
TransportValidationErrors == {"InvalidPayload", "AtLeastOneNodeRequired"}

ValidationFailure(t) ==
    IsPlatformCall(t) /\ Failed(t) /\ result[t].kind \in ValidationErrors

\* C11 as stated: an activation that returns a validation error has issued no
\* remote call and has run no cryptographic operation (no secret derivation, no
\* key-pair construction).
C11_ValidationBeforeNetworkAndCrypto ==
    \A t \in Tasks :
        ValidationFailure(t) => (net[t] = <<>> /\ crypto[t].ops = <<>>)

\* C11: an activation that returns a validation error has issued no remote
\* call; it has run no cryptographic operation either unless the error is one
\* of build_http_transport (AtLeastOneNodeRequired, InvalidPayload), which is
\* returned after key-policy resolution has succeeded, that is after the key
\* pair was built (and the secret derived, under a GlobalHDAccount policy).
C11_ValidationBeforeNetwork ==
    \A t \in Tasks :
        ValidationFailure(t) =>
            /\ net[t] = <<>>
            /\ IF result[t].kind \in TransportValidationErrors
               THEN /\ crypto[t].kp_called /\ crypto[t].kp_res = Ok
                    /\ crypto[t].ops # <<>>
                    /\ crypto[t].ops[Len(crypto[t].ops)] = "from_secret_slice"
               ELSE crypto[t].ops = <<>>

\* An unparsable URL reported after the secret was derived and the key pair built.
C11_Witness ==
    \E t \in Tasks :
        /\ ValidationFailure(t) /\ result[t].kind = "InvalidPayload"
        /\ crypto[t].ops = <<"derive_secp256k1_secret", "from_secret_slice">>
        /\ net[t] = <<>>

\* The required_confirmations the caller asked for and the config's, for an
\* activation and for a token derivation.
RequestedConfirmations(t) ==
    IF call[t].kind = "platform" THEN call[t].req.required_confirmations
    ELSE call[t].activation_params.required_confirmations
ConfiguredConfirmations(t) == call[t].conf.required_confirmations
DefaultConfirmations(t) ==
    IF call[t].kind = "platform" THEN DEFAULT_REQUIRED_CONFIRMATIONS
    ELSE TOKEN_DEFAULT_REQUIRED_CONFIRMATIONS

\* C12: the required_confirmations of every coin, platform or token, is the
\* request's value if the request has one, else the config's value if the
\* config has one, else the default constant.
C12_RequiredConfirmations ==
    \A t \in Coins :
        TheCoin(t).required_confirmations =
            IF IsSome(RequestedConfirmations(t)) THEN Unwrap(RequestedConfirmations(t))
            ELSE IF IsSome(ConfiguredConfirmations(t)) THEN Unwrap(ConfiguredConfirmations(t))
            ELSE DefaultConfirmations(t)

\* A platform coin whose request overrode its config, and a token derived from
\* it that took the value of its own config.
C12_Witness ==
    \E p, k \in Coins :
        /\ call[p].kind = "platform" /\ call[k].kind = "token"
        /\ RequestedConfirmations(p) = Some(3) /\ ConfiguredConfirmations(p) = Some(2)
        /\ TheCoin(p).required_confirmations = 3
        /\ RequestedConfirmations(k) = None /\ ConfiguredConfirmations(k) = Some(2)
        /\ TheCoin(k).required_confirmations = 2

Tokens == {t \in Coins : TheCoin(t).coin_type.tag = "Erc20"}
ConfiguredDecimals(t) == call[t].conf.decimals
DecimalsConfigured(t) == IsSome(ConfiguredDecimals(t)) /\ Unwrap(ConfiguredDecimals(t)) # 0

\* C13: the decimals of every token coin are the config's decimals when the
\* config has a nonzero value (an unsigned 64-bit integer), and no query is
\* made; otherwise they are the value the on-chain decimals query answered.
C13_TokenDecimals ==
    \A t \in Tokens :
        IF DecimalsConfigured(t)
        THEN TheCoin(t).decimals = Unwrap(ConfiguredDecimals(t)) /\ net[t] = <<>>
        ELSE /\ Len(net[t]) = 1 /\ net[t][1].ok
             /\ TheCoin(t).decimals = net[t][1].decimals

\* Cancellation of abortable systems: a system is aborted once it was
\* cancelled itself (its coin was dropped; MmArc::stop for the root) or its
\* parent is aborted; the futures spawned on it run while it is not.
RECURSIVE Aborted(_)
Aborted(id) ==
    IF id = ROOT THEN ctx # "running"
    ELSE id \in dropped \/ \E s \in subsystems : s.id = id /\ Aborted(s.parent)
Running(t) == ~Aborted(TheCoin(t).abortable_system)

\* C14: cancelling a platform coin's system also aborts the system
\* of every token derived from it; cancelling only the token's leaves the
\* platform's running; cancelling the root aborts both.
C14_PlatformCancelCascades ==
    \A k \in Tokens :
        LET p == platform_coin[k] IN
        /\ p \in dropped => ~Running(k)
        /\ (k \in dropped /\ p \notin dropped /\ ctx = "running") => Running(p)
        /\ ctx # "running" => (~Running(k) /\ ~Running(p))

\* What the code does: the system of a token is a child of the root system, a
\* sibling of its platform coin's: cancelling the platform coin's system leaves the token's
\* running, cancelling only the token's leaves the platform's running, and
\* cancelling the root aborts both.
TokenScopeIsChildOfRoot ==
    \A k \in Tokens :
        LET p == platform_coin[k] IN
        /\ Subsystem(TheCoin(k).abortable_system, ROOT) \in subsystems
        /\ Subsystem(TheCoin(p).abortable_system, ROOT) \in subsystems
        /\ (p \in dropped /\ k \notin dropped /\ ctx = "running") => Running(k)
        /\ (k \in dropped /\ p \notin dropped /\ ctx = "running") => Running(p)
        /\ ctx # "running" => (~Running(k) /\ ~Running(p))

\* A platform coin was dropped and the token derived from it still runs.
TokenOutlivesPlatform ==
    \E k \in Tokens :
        /\ platform_coin[k] \in dropped /\ k \notin dropped /\ ctx = "running"
        /\ Running(k) /\ ~Running(platform_coin[k])

\* A step of the token derivation of task t.
TokenStep(t) == call[t].kind = "token" /\ pc'[t] # pc[t]

\* C15: a token derivation that succeeds returns a token whose my_address,
\* priv_key_policy and nonce_lock are those of the platform coin it was derived
\* from (the nonce lock is the same instance), and no step of a token
\* derivation changes NONCE_LOCK, takes its guard, creates a nonce lock or
\* changes a coin that exists.
C15_TokenSharesPlatformIdentity ==
    [][\A t \in Tasks :
          TokenStep(t) =>
              /\ NONCE_LOCK' = NONCE_LOCK
              /\ NONCE_LOCK_guard' = NONCE_LOCK_guard
              /\ nonce_locks' = nonce_locks
              /\ \A s \in Tasks \ {t} : coin'[s] = coin[s]
              /\ IsSome(coin'[t]) =>
                    LET token == Unwrap(coin'[t])
                        self == Unwrap(coin[platform_coin'[t]])
                    IN /\ token.my_address = self.my_address
                       /\ token.priv_key_policy = self.priv_key_policy
                       /\ token.nonce_lock = self.nonce_lock]_vars

\* A token that holds its platform coin's nonce lock, address and key policy;
\* NONCE_LOCK has no entry for the token's ticker.
C15_Witness ==
    \E k \in Tokens :
        /\ TheCoin(k).nonce_lock = TheCoin(platform_coin[k]).nonce_lock
        /\ TheCoin(k).my_address = TheCoin(platform_coin[k]).my_address
        /\ TheCoin(k).priv_key_policy = TheCoin(platform_coin[k]).priv_key_policy
        /\ TheCoin(k).ticker \notin DOMAIN NONCE_LOCK
        /\ NONCE_LOCK[TheCoin(platform_coin[k]).ticker] = TheCoin(k).nonce_lock

\* Transport `copy` is transport `original` but for the ticker of its
\* GuiAuthValidationGenerator, which is `ticker`: same kind, same nodes in the
\* same order, same signing secret and address.
CopyTaggedWith(copy, original, ticker) ==
    /\ copy.kind = original.kind
    /\ copy.nodes = original.nodes
    /\ IsSome(copy.gui_auth_validation_generator) = IsSome(original.gui_auth_validation_generator)
    /\ IsSome(original.gui_auth_validation_generator) =>
          LET c == Unwrap(copy.gui_auth_validation_generator)
              o == Unwrap(original.gui_auth_validation_generator)
          IN c.secret = o.secret /\ c.address = o.address /\ c.coin_ticker = ticker

\* The ticker the transport signs its requests for, if it signs them.
TaggedWith(transport, ticker) ==
    IsSome(transport.gui_auth_validation_generator) =>
        Unwrap(transport.gui_auth_validation_generator).coin_ticker = ticker

\* C16: the transports of a token are those of its platform coin with only
\* the ticker of the request signer rewritten to the token's: the composite
\* client has the same nodes and signer, there are as many per-node clients,
\* in the same order, each over the same node with the same is_parity; the
\* platform coin's transports still carry the platform's ticker.
C16_TokenTransports ==
    \A k \in Tokens :
        LET token == TheCoin(k)
            self == TheCoin(platform_coin[k])
        IN /\ CopyTaggedWith(token.web3, self.web3, token.ticker)
           /\ Len(token.web3_instances) = Len(self.web3_instances)
           /\ \A i \in 1..Len(self.web3_instances) :
                 /\ CopyTaggedWith(token.web3_instances[i].web3,
                                   self.web3_instances[i].web3, token.ticker)
                 /\ token.web3_instances[i].is_parity = self.web3_instances[i].is_parity
           /\ TaggedWith(self.web3, self.ticker)
           /\ \A i \in 1..Len(self.web3_instances) :
                 TaggedWith(self.web3_instances[i].web3, self.ticker)

\* A token over two per-node clients, a Parity one and another, whose signer
\* carries the token's ticker while the platform's carries its own.
C16_Witness ==
    \E k \in Tokens :
        LET token == TheCoin(k)
            self == TheCoin(platform_coin[k])
        IN /\ Len(token.web3_instances) = 2
           /\ token.web3_instances[1].is_parity /\ ~token.web3_instances[2].is_parity
           /\ IsSome(token.web3.gui_auth_validation_generator)
           /\ Unwrap(token.web3.gui_auth_validation_generator).coin_ticker = "USDT"
           /\ Unwrap(self.web3.gui_auth_validation_generator).coin_ticker = self.ticker
           /\ self.ticker # token.ticker

\* The policy key-policy resolution gives for the build policy of the call.
ResolvedPolicyTag(t) ==
    IF call[t].priv_key_policy.tag = "Metamask" THEN "Metamask" ELSE "KeyPair"

\* Key-policy resolution has succeeded in task t and its policy does not go
\* with the RPC mode of the request.
Incompatible(t) ==
    /\ IsPlatformCall(t)
    /\ crypto[t].kp_called /\ crypto[t].kp_res = Ok
    /\ \/ call[t].req.rpc_mode = "Http" /\ ResolvedPolicyTag(t) = "Metamask"
       \/ call[t].req.rpc_mode = "Metamask" /\ ResolvedPolicyTag(t) = "KeyPair"

ZeroSwap(t) == call[t].req.swap_contract_address = Address_default
KeyPolicyResult(t) ==
    build_address_and_priv_key_policy(call[t].conf, call[t].priv_key_policy).res
ModeMismatch(t) ==
    \/ call[t].req.rpc_mode = "Http" /\ ResolvedPolicyTag(t) = "Metamask"
    \/ call[t].req.rpc_mode = "Metamask" /\ ResolvedPolicyTag(t) = "KeyPair"
BadUrl(t) == \E i \in 1..Len(NodesOf(t)) : ~parse(NodesOf(t)[i].url).ok

\* The error of the first step that fails on the arguments alone, in the order
\* of the function; "none" when the arguments pass every check.
FirstInvalid(t) ==
    IF ZeroSwap(t) THEN "InvalidSwapContractAddr"
    ELSE IF ZeroFallback(t) THEN "InvalidFallbackSwapContract"
    ELSE IF KeyPolicyResult(t) # Ok THEN KeyPolicyResult(t).kind
    ELSE IF ModeMismatch(t) THEN "ActivationFailed"
    ELSE IF call[t].req.rpc_mode = "Metamask" THEN "none"
    ELSE IF NodesOf(t) = <<>> THEN "AtLeastOneNodeRequired"
    ELSE IF BadUrl(t) THEN "InvalidPayload"
    ELSE "none"

\* The steps task t has executed.
KeyPolicyRan(t) == crypto[t].kp_called
ProbingRan(t) == net[t] # <<>>
RegistryRan(t) == NONCE_LOCK_guard = t \/ call[t].ticker \in DOMAIN NONCE_LOCK
ScopeCreated(t) == \E s \in subsystems : s.id = t

\* C18: an activation that fails returns the error of the first step that
\* fails, in the order zero swap contract, zero fallback contract, key-policy
\* resolution, transport (mode and policy, empty node list, unparsable URL, no
\* reachable node), nonce lock, subsystem; no step after the failing one is
\* executed.
C18_FirstFailingStep ==
    \A t \in Tasks :
        (IsPlatformCall(t) /\ pc[t] # "idle") =>
            IF FirstInvalid(t) # "none"
            THEN /\ Returned(t) /\ result[t].kind = FirstInvalid(t) /\ coin[t] = None
                 /\ KeyPolicyRan(t) <=>
                        FirstInvalid(t) \notin {"InvalidSwapContractAddr",
                                                "InvalidFallbackSwapContract"}
                 /\ ~KeyPolicyRan(t) => crypto[t].ops = <<>>
                 /\ ~ProbingRan(t) /\ ~RegistryRan(t) /\ ~ScopeCreated(t)
            ELSE /\ KeyPolicyRan(t) /\ crypto[t].kp_res = Ok
                 /\ RegistryRan(t) =>
                        \/ call[t].req.rpc_mode = "Metamask" /\ ~ProbingRan(t)
                        \/ Len(net[t]) = Len(NodesOf(t)) /\ Answers(t) # <<>>
                 /\ ScopeCreated(t) => (RegistryRan(t) /\ result[t] = Ok)
                 /\ Failed(t) =>
                        \/ /\ result[t].kind = "UnreachableNodes"
                           /\ Len(net[t]) = Len(NodesOf(t)) /\ Answers(t) = <<>>
                           /\ ~RegistryRan(t) /\ ~ScopeCreated(t)
                        \/ /\ result[t] = Err("InternalError", "aborted")
                           /\ RegistryRan(t) /\ ~ScopeCreated(t)

\* A call with every argument wrong fails on the first check and runs nothing else.
C18_Witness ==
    \E t \in Tasks :
        /\ IsPlatformCall(t) /\ Returned(t)
        /\ ZeroSwap(t) /\ ZeroFallback(t) /\ KeyPolicyResult(t) # Ok /\ NodesOf(t) = <<>>
        /\ result[t].kind = "InvalidSwapContractAddr"
        /\ ~KeyPolicyRan(t)

\* Task t is suspended at an .await: a probe or the decimals query is in flight.
Suspended(t) == pc[t] \in {"probe", "decimals"}

\* C19: the task that holds the guard of NONCE_LOCK is at no suspension
\* point and has finished its probes; while it holds the guard it issues no
\* remote call, and its next step returns from the function and releases the
\* guard.
C19_NoAwaitUnderRegistryLock ==
    [][\A t \in Tasks :
          /\ NONCE_LOCK_guard' = t =>
                /\ pc'[t] = "locked" /\ ~Suspended(t)'
                /\ call[t].req.rpc_mode = "Http" => Len(net'[t]) = Len(NodesOf(t))
          /\ NONCE_LOCK_guard = t =>
                /\ net'[t] = net[t]
                /\ pc'[t] # pc[t] => (pc'[t] = "done" /\ NONCE_LOCK_guard' = 0)]_vars

\* One activation holds the guard while another waits for a probe to answer.
C19_Witness ==
    \E t, u \in Tasks :
        /\ t # u
        /\ NONCE_LOCK_guard = t /\ net[t] # <<>>
        /\ pc[u] = "probe"

\* The decimals query of task t's token derivation fails in this step.
DecimalsQueryFails(t) ==
    /\ call[t].kind = "token" /\ pc[t] = "decimals"
    /\ Len(net'[t]) = Len(net[t]) + 1
    /\ ~net'[t][Len(net'[t])].ok

\* C20: the decimals are queried only when the token's config has none or
\* zero; when the query fails the derivation returns InternalError with no
\* token coin, no subsystem is created, and the platform coin and NONCE_LOCK
\* are as they were.
C20_DecimalsQueryFailure ==
    [][\A t \in Tasks :
          /\ (call[t].kind = "token" /\ pc'[t] = "decimals") => ~DecimalsConfigured(t)
          /\ DecimalsQueryFails(t) =>
                /\ pc'[t] = "done"
                /\ result'[t].kind = "InternalError"
                /\ coin'[t] = None
                /\ subsystems' = subsystems
                /\ coin'[platform_coin[t]] = coin[platform_coin[t]]
                /\ NONCE_LOCK' = NONCE_LOCK /\ nonce_locks' = nonce_locks
                /\ NONCE_LOCK_guard' = NONCE_LOCK_guard]_vars

\* A derivation under a config with decimals 0 whose query failed: no token,
\* the platform coin and its subsystem only.
C20_Witness ==
    \E t \in Tasks :
        /\ call[t].kind = "token" /\ ConfiguredDecimals(t) = Some(0)
        /\ Returned(t) /\ result[t].kind = "InternalError"
        /\ Len(net[t]) = 1 /\ ~net[t][1].ok
        /\ coin[t] = None
        /\ IsSome(coin[platform_coin[t]])
        /\ subsystems = {Subsystem(platform_coin[t], ROOT)}

\* The lower-case form of a character, and of a string.
to_lowercase_char(ch) ==
    CASE ch = "P" -> "p" [] ch = "A" -> "a" [] ch = "R" -> "r" [] ch = "I" -> "i"
      [] ch = "T" -> "t" [] ch = "Y" -> "y" [] ch = "G" -> "g" [] ch = "O" -> "o"
      [] ch = "E" -> "e" [] OTHER -> ch
to_lowercase(s) == [i \in 1..Len(s) |-> to_lowercase_char(s[i])]

\* The version string contains the name of the Parity client in some casing.
NamesParity(version) ==
    contains(to_lowercase(version), <<"p", "a", "r", "i", "t", "y">>)

\* The clients built for the nodes that answered task t, in the order of the
\* answers: those of the coin, or those the call holds before it returns.
Web3InstancesOf(t) ==
    IF IsSome(coin[t]) THEN TheCoin(t).web3_instances ELSE loc[t].web3_instances

\* C21: the client of a probed node has is_parity exactly when the version
\* string the node answered contains the name of the Parity client, compared
\* without regard to case.
C21_ParityCaseInsensitive ==
    \A t \in Tasks :
        (IsPlatformCall(t) /\ (pc[t] = "lock" \/ IsSome(coin[t]))) =>
            /\ Len(Web3InstancesOf(t)) = Len(Answers(t))
            /\ \A j \in 1..Len(Answers(t)) :
                  Web3InstancesOf(t)[j].is_parity <=> NamesParity(Answers(t)[j].version)

\* What the code does: is_parity exactly when the version string contains
\* "Parity" or "parity".
ParityTwoCasings ==
    \A t \in Tasks :
        (IsPlatformCall(t) /\ (pc[t] = "lock" \/ IsSome(coin[t]))) =>
            /\ Len(Web3InstancesOf(t)) = Len(Answers(t))
            /\ \A j \in 1..Len(Answers(t)) :
                  Web3InstancesOf(t)[j].is_parity <=>
                      \/ contains(Answers(t)[j].version, <<"P", "a", "r", "i", "t", "y">>)
                      \/ contains(Answers(t)[j].version, <<"p", "a", "r", "i", "t", "y">>)

\* Sequences a and b hold the same elements, each as many times.
SameBag(a, b) ==
    /\ Len(a) = Len(b)
    /\ \E p \in Bijections(Len(a)) : \A i \in 1..Len(a) : a[i] = b[p[i]]

\* The endpoints of task t's request, parsed, in the order of the request.
ConfiguredUris(t) == [i \in 1..Len(NodesOf(t)) |-> parse(NodesOf(t)[i].url).uri]
ProbedUris(t) == [i \in 1..Len(net[t]) |-> net[t][i].uri]

\* Transport construction has ended in task t, and how.
TransportEnded(t) == IsPlatformCall(t) /\ pc[t] \in {"lock", "locked", "done"}
TransportFailed(t) == pc[t] = "done" /\ result[t].kind = "UnreachableNodes"

\* C22: two runs of one direct-node activation in which every endpoint gave
\* the same answer, whatever the order each run probed them in, both build
\* the transport or both fail, and have clients for the same nodes with the
\* same is_parity, up to their order; each run probes every endpoint once.
C22_ShuffleIndependent ==
    \A t, u \in Tasks :
        (TransportEnded(t) /\ TransportEnded(u) /\ call[t] = call[u]) =>
            /\ SameBag(ProbedUris(t), ConfiguredUris(t))
            /\ SameBag(net[t], net[u]) =>
                  /\ TransportFailed(t) <=> TransportFailed(u)
                  /\ result[t].kind \in {"Ok", "Pending"} <=> result[u].kind \in {"Ok", "Pending"}
                  /\ SameBag(Web3InstancesOf(t), Web3InstancesOf(u))

\* Two runs that probed the two nodes in opposite orders, got the same answer
\* from each, a Parity node and another, and hold the clients in opposite orders.
C22_Witness ==
    \E t, u \in Tasks :
        /\ t # u /\ TransportEnded(t) /\ TransportEnded(u) /\ call[t] = call[u]
        /\ SameBag(net[t], net[u]) /\ net[t] # net[u]
        /\ Len(Web3InstancesOf(t)) = 2
        /\ Web3InstancesOf(t)[1].is_parity /\ ~Web3InstancesOf(t)[2].is_parity
        /\ Web3InstancesOf(u)[1] = Web3InstancesOf(t)[2]
        /\ Web3InstancesOf(u)[2] = Web3InstancesOf(t)[1]

\* A direct-node request with a node URL that does not parse.
BadUrlCall(t) == IsPlatformCall(t) /\ call[t].req.rpc_mode = "Http" /\ BadUrl(t)

\* C23 (as claimed): a direct-node activation with a node URL that does not
\* parse fails with InvalidPayload before any endpoint is probed and leaves
\* NONCE_LOCK unchanged.
C23_BadUrl ==
    \A t \in Tasks :
        (BadUrlCall(t) /\ pc[t] # "idle") =>
            /\ Returned(t) /\ result[t].kind = "InvalidPayload"
            /\ net[t] = <<>>
            /\ NONCE_LOCK = <<>> /\ nonce_locks = 0

\* C23 (amended): a direct-node activation with a node URL that does not parse,
\* when the contract addresses pass the zero checks and key-policy resolution
\* succeeds with a key pair, fails with InvalidPayload whatever the other
\* nodes are, before any endpoint is probed, and leaves NONCE_LOCK unchanged.
C23_BadUrlAfterKeyPolicy ==
    \A t \in Tasks :
        (/\ BadUrlCall(t) /\ pc[t] # "idle"
         /\ ~ZeroSwap(t) /\ ~ZeroFallback(t)
         /\ crypto[t].kp_called /\ crypto[t].kp_res = Ok
         /\ ResolvedPolicyTag(t) = "KeyPair")
        => /\ Returned(t) /\ result[t].kind = "InvalidPayload" /\ coin[t] = None
           /\ net[t] = <<>>
           /\ NONCE_LOCK = <<>> /\ nonce_locks = 0 /\ NONCE_LOCK_guard = 0

\* A request whose first node is well formed and whose second URL does not parse.
C23_Witness ==
    \E t \in Tasks :
        /\ BadUrlCall(t) /\ Returned(t)
        /\ NodesOf(t) = <<NodeA, EthNode(UrlBad, FALSE)>>
        /\ result[t].kind = "InvalidPayload"
        /\ crypto[t].kp_res = Ok /\ net[t] = <<>>

====
